---- MODULE Spec2Model ----
(***************************************************************************)
(* Model of the Plant CRUD service of server/app.py.                       *)
(*                                                                         *)
(* State: the plants table (store) and, for each of two clients, the       *)
(* request it has in flight: where its handler stands, the Plant instance  *)
(* of its session, and the response once it has one.  A handler runs as    *)
(* the storage round trips of its code (lookup, commit, reload), each      *)
(* atomic, and the round trips of the two requests interleave freely.      *)
(* SpecFault lets a db.session.commit() raise; SpecRace runs one PATCH and *)
(* one DELETE of the same record.                                          *)
(***************************************************************************)
EXTENDS Integers, Sequences, FiniteSets, TLC

VARIABLES store, slot

vars == <<store, slot>>

\* ---------------------------------------------------------------- bounds

\* Largest primary key the model lets the table hold.
MaxId == 2

Ids == 1..MaxId

\* ------------------------------------------------------- the Plant entity

\* Column attributes of Plant (models.py).
Columns == {"id", "name", "image", "price", "is_in_stock"}

\* A row of the plants table, without its primary key.
Row(name, image, price, stock) ==
    [name |-> name, image |-> image, price |-> price, is_in_stock |-> stock]

\* Plant.to_dict(): the dictionary form of the row stored under id.
to_dict(id, row) ==
    [id |-> id, name |-> row.name, image |-> row.image, price |-> row.price,
     is_in_stock |-> row.is_in_stock]

\* The Plant instance of a session: its columns, whether its to_dict
\* attribute is still the method of the class, and whether its
\* _sa_instance_state is still the ORM's.
Instance(id, row) ==
    [id |-> id, name |-> row.name, image |-> row.image, price |-> row.price,
     is_in_stock |-> row.is_in_stock, to_dict_callable |-> TRUE,
     state_ok |-> TRUE]

\* The instance a query loads.
Load(st, id) == Instance(id, st[id])

NoPlant ==
    [id |-> 0, name |-> "", image |-> "", price |-> 0, is_in_stock |-> FALSE,
     to_dict_callable |-> FALSE, state_ok |-> FALSE]

\* The row an instance flushes to.
RowOf(plant) == Row(plant.name, plant.image, plant.price, plant.is_in_stock)

EmptyStore == [i \in {} |-> Row("Aloe", "aloe.jpg", 15, TRUE)]

\* ------------------------------------------------------ request bodies

\* request.get_json(): a body is either no JSON object (json = FALSE: no
\* body, wrong content type, malformed, or a JSON value that is no object)
\* or the object's items in order.
NoBody == [json |-> FALSE, items |-> <<>>]

Json(items) == [json |-> TRUE, items |-> items]

RECURSIVE HasKeyIn(_, _)
HasKeyIn(items, key) ==
    IF items = <<>> THEN FALSE
    ELSE IF Head(items)[1] = key THEN TRUE
    ELSE HasKeyIn(Tail(items), key)

RECURSIVE ValueIn(_, _)
ValueIn(items, key) ==
    IF Head(items)[1] = key THEN Head(items)[2] ELSE ValueIn(Tail(items), key)

\* ----------------------------------------------------------- responses

NotFound == [status |-> 404, kind |-> "error", error |-> "Plant not found"]

BadRequest(msg) == [status |-> 400, kind |-> "errors", errors |-> <<msg>>]

PlantResponse(code, id, row) ==
    [status |-> code, kind |-> "plant", plant |-> to_dict(id, row)]

NoContent == [status |-> 204, kind |-> "empty"]

\* What the hosting layer answers when a handler raises.
ServerError == [status |-> 500, kind |-> "uncaught"]

NoResponse == [status |-> 0, kind |-> "none"]

\* ------------------------------------------------------------ storage

RECURSIVE Max(_)
Max(S) ==
    LET x == CHOOSE y \in S : TRUE
    IN IF S = {x} THEN x
       ELSE LET m == Max(S \ {x}) IN IF x > m THEN x ELSE m

\* The primary key an INSERT without one gets from the sqlite table: one
\* more than the largest in the table, 1 in an empty table.
NextId(st) == IF DOMAIN st = {} THEN 1 ELSE Max(DOMAIN st) + 1

Insert(st, id, row) ==
    [i \in DOMAIN st \cup {id} |-> IF i = id THEN row ELSE st[i]]

Remove(st, id) == [i \in DOMAIN st \ {id} |-> st[i]]

\* Plant.query.all(): the rows in primary-key order, in dictionary form.
RECURSIVE AllFrom(_, _)
AllFrom(st, ids) ==
    IF ids = {} THEN <<>>
    ELSE LET m == CHOOSE x \in ids : \A y \in ids : x <= y
         IN <<to_dict(m, st[m])>> \o AllFrom(st, ids \ {m})

\* ----------------------------------------------------- Plants (/plants)

\* Plants_get with the listing filtered to the plants in stock.
Plants_get_in_stock_only(st) ==
    LET ids == {i \in DOMAIN st : st[i].is_in_stock}
    IN [status |-> 200, kind |-> "list", plants |-> AllFrom(st, ids)]

\* Plants.get: one query, one response.
Plants_get(st) ==
    [status |-> 200, kind |-> "list", plants |-> AllFrom(st, DOMAIN st)]

Failed(st, msg) == [ok |-> FALSE, store |-> st, msg |-> msg, plant |-> NoPlant]

\* Create with is_in_stock never read from the body.
Create_ignores_stock(st, body, commitOk) ==
    IF ~body.json THEN Failed(st, "no JSON object")
    ELSE IF ~HasKeyIn(body.items, "name") THEN Failed(st, "'name'")
    ELSE IF ~HasKeyIn(body.items, "image") THEN Failed(st, "'image'")
    ELSE IF ~HasKeyIn(body.items, "price") THEN Failed(st, "'price'")
    ELSE LET row == Row(ValueIn(body.items, "name"),
                        ValueIn(body.items, "image"),
                        ValueIn(body.items, "price"), TRUE)
             id == NextId(st)
         IN IF ~commitOk THEN Failed(st, "commit failed")
            ELSE [ok |-> TRUE, store |-> Insert(st, id, row), msg |-> "",
                  plant |-> Instance(id, row)]

\* Create with name read by data.get('name'): a missing name is stored as
\* null instead of raising.
Create_name_optional(st, body, commitOk) ==
    IF ~body.json THEN Failed(st, "no JSON object")
    ELSE IF ~HasKeyIn(body.items, "image") THEN Failed(st, "'image'")
    ELSE IF ~HasKeyIn(body.items, "price") THEN Failed(st, "'price'")
    ELSE LET row == Row(IF HasKeyIn(body.items, "name")
                        THEN ValueIn(body.items, "name") ELSE "null",
                        ValueIn(body.items, "image"),
                        ValueIn(body.items, "price"),
                        IF HasKeyIn(body.items, "is_in_stock")
                        THEN ValueIn(body.items, "is_in_stock") ELSE TRUE)
             id == NextId(st)
         IN IF ~commitOk THEN Failed(st, "commit failed")
            ELSE [ok |-> TRUE, store |-> Insert(st, id, row), msg |-> "",
                  plant |-> Instance(id, row)]

\* Plants.post up to its commit: the parsed body, Plant(...), add, commit.
Create(st, body, commitOk) ==
    IF ~body.json THEN Failed(st, "no JSON object")
    ELSE IF ~HasKeyIn(body.items, "name") THEN Failed(st, "'name'")
    ELSE IF ~HasKeyIn(body.items, "image") THEN Failed(st, "'image'")
    ELSE IF ~HasKeyIn(body.items, "price") THEN Failed(st, "'price'")
    ELSE LET row == Row(ValueIn(body.items, "name"),
                        ValueIn(body.items, "image"),
                        ValueIn(body.items, "price"),
                        IF HasKeyIn(body.items, "is_in_stock")
                        THEN ValueIn(body.items, "is_in_stock") ELSE TRUE)
             id == NextId(st)
         IN IF ~commitOk THEN Failed(st, "commit failed")
            ELSE [ok |-> TRUE, store |-> Insert(st, id, row), msg |-> "",
                  plant |-> Instance(id, row)]

\* ------------------------------------------- PlantByID (/plants/<int:id>)

\* PlantByID.get: one query, one response.
PlantByID_get(st, id) ==
    IF id \in DOMAIN st THEN PlantResponse(200, id, st[id]) ELSE NotFound

\* Attributes every instance has besides its columns and to_dict, whatever
\* the versions installed: those of a Python object and those the ORM gives
\* a mapped class.
ObjectAttrs ==
    {"__class__", "__dict__", "__weakref__", "__doc__", "__init__",
     "__module__", "__eq__", "__ne__", "__hash__", "__repr__", "__str__",
     "__setattr__", "__getattribute__", "__delattr__", "__dir__",
     "__format__", "__new__", "__reduce__", "__reduce_ex__", "__sizeof__",
     "__lt__", "__le__", "__gt__", "__ge__", "__init_subclass__",
     "__subclasshook__", "__table__", "__tablename__", "__mapper__",
     "_sa_class_manager", "query", "metadata", "_sa_instance_state"}

\* Attributes an instance has under some interpreters only: none before
\* Python 3.11, __getstate__ from 3.11, two more from 3.13.
PythonBuilds ==
    {{}, {"__getstate__"},
     {"__getstate__", "__firstlineno__", "__static_attributes__"}}

\* Attributes a model has under some versions of the ORM only: registry
\* from SQLAlchemy 1.4, __fsa__ from Flask-SQLAlchemy 3.
OrmBuilds == {{}, {"registry"}, {"registry", "__fsa__"}}

\* The version-dependent attributes of one installation.
Builds == {py \cup orm : py \in PythonBuilds, orm \in OrmBuilds}

\* hasattr(plant, key) under an installation
HasAttr(key, build) == key \in Columns \cup {"to_dict"} \cup ObjectAttrs \cup build

\* setattr(plant, key, value) raises, value being a JSON scalar: __class__
\* takes a class only, __dict__ a dictionary only, __weakref__ is not
\* writable; a column cannot be set once _sa_instance_state is no longer the
\* ORM's.
SetAttrRaises(plant, key) ==
    \/ key \in {"__class__", "__dict__", "__weakref__"}
    \/ key \in Columns /\ ~plant.state_ok

\* setattr(plant, key, value) where it does not raise: a column takes the
\* value, to_dict and _sa_instance_state are shadowed, anything else is an
\* instance attribute nothing reads.
SetAttr(plant, key, value) ==
    IF key \in Columns THEN [plant EXCEPT ![key] = value]
    ELSE IF key = "to_dict" THEN [plant EXCEPT !.to_dict_callable = FALSE]
    ELSE IF key = "_sa_instance_state" THEN [plant EXCEPT !.state_ok = FALSE]
    ELSE plant

\* The loop over data.items(): the instance after the assignments, or the
\* failure of one of them.
RECURSIVE ApplyItems(_, _, _)
ApplyItems(plant, items, build) ==
    IF items = <<>> THEN [ok |-> TRUE, plant |-> plant]
    ELSE LET key == Head(items)[1]
             value == Head(items)[2]
         IN IF ~HasAttr(key, build) THEN ApplyItems(plant, Tail(items), build)
            ELSE IF SetAttrRaises(plant, key) THEN [ok |-> FALSE, plant |-> plant]
            ELSE ApplyItems(SetAttr(plant, key, value), Tail(items), build)

\* The row an UPDATE leaves: the columns the session changed take the new
\* value, the others keep what the table holds.
Merged(row, loaded, plant) ==
    Row(IF plant.name # loaded.name THEN plant.name ELSE row.name,
        IF plant.image # loaded.image THEN plant.image ELSE row.image,
        IF plant.price # loaded.price THEN plant.price ELSE row.price,
        IF plant.is_in_stock # loaded.is_in_stock
        THEN plant.is_in_stock ELSE row.is_in_stock)

NetChange(loaded, plant) ==
    RowOf(plant) # RowOf(loaded) \/ plant.id # loaded.id

\* Flush with the UPDATE missing its WHERE clause: every row is overwritten.
Flush_no_where(st, loaded, plant, commitOk) ==
    IF ~commitOk THEN [ok |-> FALSE, store |-> st, msg |-> "commit failed"]
    ELSE IF ~NetChange(loaded, plant)
         THEN [ok |-> TRUE, store |-> st, msg |-> ""]
    ELSE [ok |-> TRUE, msg |-> "", store |-> [i \in DOMAIN st |-> RowOf(plant)]]

\* Flush writing the instance back whether or not its row still exists (a
\* merge instead of an UPDATE).
Flush_upsert(st, loaded, plant, commitOk) ==
    IF ~commitOk THEN [ok |-> FALSE, store |-> st, msg |-> "commit failed"]
    ELSE IF ~NetChange(loaded, plant)
         THEN [ok |-> TRUE, store |-> st, msg |-> ""]
    ELSE IF plant.id # loaded.id /\ plant.id \in DOMAIN st
         THEN [ok |-> FALSE, store |-> st, msg |-> "IntegrityError"]
    ELSE [ok |-> TRUE, msg |-> "",
          store |-> Insert(Remove(st, loaded.id), plant.id, RowOf(plant))]

\* db.session.commit() of a loaded instance: with no net change of a column
\* nothing is written; otherwise one UPDATE of the changed columns of the
\* row the instance was loaded from, which fails when that row is gone or
\* the new primary key is taken.
Flush(st, loaded, plant, commitOk) ==
    IF ~commitOk THEN [ok |-> FALSE, store |-> st, msg |-> "commit failed"]
    ELSE IF ~NetChange(loaded, plant)
         THEN [ok |-> TRUE, store |-> st, msg |-> ""]
    ELSE IF loaded.id \notin DOMAIN st
         THEN [ok |-> FALSE, store |-> st, msg |-> "StaleDataError"]
    ELSE IF plant.id # loaded.id /\ plant.id \in DOMAIN st
         THEN [ok |-> FALSE, store |-> st, msg |-> "IntegrityError"]
    ELSE [ok |-> TRUE, msg |-> "",
          store |-> Insert(Remove(st, loaded.id), plant.id,
                           Merged(st[loaded.id], loaded, plant))]

\* plant.to_dict() after the commit.  Whether the commit expired the
\* instance is a setting of the session of db (models.py; the ORM's default
\* is that it did).  Expired, the row is read back by primary key, which
\* fails when it is gone; not expired, the values in memory are returned.
Serialize(st, plant, code, expire) ==
    IF ~plant.to_dict_callable THEN BadRequest("'int' object is not callable")
    ELSE IF ~expire THEN PlantResponse(code, plant.id, RowOf(plant))
    ELSE IF ~plant.state_ok THEN BadRequest("AttributeError")
    ELSE IF plant.id \notin DOMAIN st THEN BadRequest("ObjectDeletedError")
    ELSE PlantResponse(code, plant.id, st[plant.id])

\* The try block of patch, from the parsed body to the commit.
Update(st, loaded, body, commitOk, build) ==
    IF ~body.json THEN Failed(st, "no JSON object")
    ELSE LET a == ApplyItems(loaded, body.items, build)
         IN IF ~a.ok THEN Failed(st, "setattr raised")
            ELSE LET f == Flush(st, loaded, a.plant, commitOk)
                 IN [ok |-> f.ok, store |-> f.store, msg |-> f.msg,
                     plant |-> a.plant]

\* Find with the body parsed before the lookup.
Find_parse_first(st, id, body) ==
    IF ~body.json
    THEN [found |-> FALSE, plant |-> NoPlant, response |-> BadRequest("no JSON object")]
    ELSE IF id \in DOMAIN st
    THEN [found |-> TRUE, plant |-> Load(st, id), response |-> NoResponse]
    ELSE [found |-> FALSE, plant |-> NoPlant, response |-> NotFound]

\* Plant.query.filter_by(id=id).first() of patch and delete, and the 404 of
\* a missing record; the body is not looked at.
Find(st, id, body) ==
    IF id \in DOMAIN st
    THEN [found |-> TRUE, plant |-> Load(st, id), response |-> NoResponse]
    ELSE [found |-> FALSE, plant |-> NoPlant, response |-> NotFound]

\* Delete with the commit left out: the row stays.
Delete_uncommitted(st, id) == st

\* db.session.delete(plant); db.session.commit(): the DELETE of a row that
\* is already gone only warns.
Delete(st, id) == IF id \in DOMAIN st THEN Remove(st, id) ELSE st

\* ------------------------------------------------------------- inputs

ImageOf(name) == IF name = "Aloe" THEN "aloe.jpg" ELSE "fern.jpg"

PriceOf(name) == IF name = "Aloe" THEN 15 ELSE 20

Creation(name) ==
    <<<<"name", name>>, <<"image", ImageOf(name)>>, <<"price", PriceOf(name)>>>>

OutOfStock == <<"is_in_stock", FALSE>>

\* Valid creation payloads: one without is_in_stock, one out of stock.
ValidPostBodies ==
    {Json(Creation("Aloe")), Json(Creation("Fern") \o <<OutOfStock>>)}

\* Bodies sent to POST /plants: the valid ones, one missing name, and no
\* JSON object at all.
PostBodies ==
    ValidPostBodies \cup {Json(<<OutOfStock>> \o Tail(Creation("Fern"))), NoBody}

OnlyOutOfStock == Json(<<OutOfStock>>)

\* Bodies sent to PATCH /plants/<id> with keys that are attributes of the
\* instance without being columns, or no attributes at all.
AttrBodies ==
    {Json(<<OutOfStock, <<"to_dict", 1>>>>),
     Json(<<OutOfStock, <<"__dict__", 1>>>>),
     Json(<<<<"__weakref__", 1>>, OutOfStock>>),
     Json(<<<<"color", "green">>, <<"__doc__", 1>>, <<"__getstate__", 1>>,
            <<"registry", 1>>, OutOfStock>>),
     Json(<<<<"query", 1>>, <<"__class__", 1>>, OutOfStock>>),
     Json(<<OutOfStock, <<"_sa_instance_state", 1>>>>),
     Json(<<<<"_sa_instance_state", 1>>, OutOfStock>>)}

\* Bodies sent to PATCH /plants/<id> that carry no id key.
PatchBodiesNoId == {OnlyOutOfStock, NoBody} \cup AttrBodies

MoveTo == {Json(<<<<"id", k>>>>) : k \in Ids}

\* The bodies of the documented use: a stock change, a change of id, no
\* JSON object.
PatchBodies == {OnlyOutOfStock, NoBody} \cup MoveTo

Request(op, id, body) == [op |-> op, id |-> id, body |-> body]

\* The requests that write, with the bodies that make them write.
WriteRequests ==
    {Request("POST /plants", 0, Json(Creation("Aloe")))}
    \cup {Request("DELETE /plants/id", i, NoBody) : i \in Ids}
    \cup {Request("PATCH /plants/id", i, b) :
              i \in Ids, b \in {OnlyOutOfStock, Json(<<<<"id", MaxId>>>>)}}

AllRequests ==
    {Request("GET /plants", 0, NoBody)}
    \cup {Request("GET /plants/id", i, NoBody) : i \in Ids}
    \cup {Request("POST /plants", 0, b) : b \in PostBodies}
    \cup {Request("DELETE /plants/id", i, NoBody) : i \in Ids}
    \cup {Request("PATCH /plants/id", i, b) : i \in Ids, b \in PatchBodies}

\* Requests that reach every handler, the PATCHes carrying the bodies with
\* attribute keys.
AttrRequests ==
    {Request("GET /plants", 0, NoBody),
     Request("POST /plants", 0, Json(Creation("Aloe")))}
    \cup {Request("GET /plants/id", i, NoBody) : i \in Ids}
    \cup {Request("DELETE /plants/id", i, NoBody) : i \in Ids}
    \cup {Request("PATCH /plants/id", i, b) : i \in Ids, b \in AttrBodies}

\* Two clients: a sends the requests under study, b the ones that write.
Clients == {"a", "b"}

Requests(c, attrs) ==
    IF c = "b" THEN WriteRequests
    ELSE IF attrs THEN AttrRequests ELSE AllRequests

\* ------------------------------------------------- the request handlers

IdleSlot ==
    [op |-> "none", id |-> 0, body |-> NoBody, commitOk |-> TRUE,
     pc |-> "idle", plant |-> NoPlant, wrote |-> FALSE, response |-> NoResponse]

\* A request as it arrives: nothing looked up, nothing answered.
Arrived(r, ok) ==
    [op |-> r.op, id |-> r.id, body |-> r.body, commitOk |-> ok,
     pc |-> "begin", plant |-> NoPlant, wrote |-> FALSE, response |-> NoResponse]

Respond(s, resp) == [s EXCEPT !.pc = "done", !.response = resp]

Init ==
    /\ store = EmptyStore
    /\ slot = [c \in Clients |-> IdleSlot]

\* The outcomes of a commit: it succeeds, or, where storage may fail, raises.
Commits(faulty) == IF faulty THEN BOOLEAN ELSE {TRUE}

\* A client sends its next request.
Issue(attrs, faulty) ==
    \E c \in Clients : \E r \in Requests(c, attrs), ok \in Commits(faulty) :
        /\ slot[c].pc = "idle"
        /\ slot' = [slot EXCEPT ![c] = Arrived(r, ok)]
        /\ UNCHANGED store

\* A client has read its response.
Receive ==
    \E c \in Clients :
        /\ slot[c].pc = "done"
        /\ slot' = [slot EXCEPT ![c] = IdleSlot]
        /\ UNCHANGED store

At(c, op, pc) == slot[c].op = op /\ slot[c].pc = pc

\* Plants.get
GetPlants ==
    \E c \in Clients :
        /\ At(c, "GET /plants", "begin")
        /\ slot' = [slot EXCEPT ![c] = Respond(@, Plants_get(store))]
        /\ UNCHANGED store

\* Plants.post: request.get_json() to db.session.commit()
PostCommit ==
    \E c \in Clients :
        /\ At(c, "POST /plants", "begin")
        /\ LET u == Create(store, slot[c].body, slot[c].commitOk)
           IN /\ DOMAIN u.store \subseteq Ids
              /\ store' = u.store
              /\ slot' = [slot EXCEPT ![c] =
                            IF u.ok
                            THEN [@ EXCEPT !.pc = "reload", !.plant = u.plant,
                                           !.wrote = TRUE]
                            ELSE Respond(@, BadRequest(u.msg))]

\* Plants.post: make_response(new_plant.to_dict(), 201)
PostReload ==
    \E c \in Clients :
        /\ At(c, "POST /plants", "reload")
        /\ \E expire \in BOOLEAN :
              slot' = [slot EXCEPT ![c] =
                         Respond(@, Serialize(store, @.plant, 201, expire))]
        /\ UNCHANGED store

\* PlantByID.get
GetPlant ==
    \E c \in Clients :
        /\ At(c, "GET /plants/id", "begin")
        /\ slot' = [slot EXCEPT ![c] = Respond(@, PlantByID_get(store, @.id))]
        /\ UNCHANGED store

\* PlantByID.patch: the lookup
PatchLookup ==
    \E c \in Clients :
        /\ At(c, "PATCH /plants/id", "begin")
        /\ LET f == Find(store, slot[c].id, slot[c].body)
           IN slot' = [slot EXCEPT ![c] =
                         IF f.found
                         THEN [@ EXCEPT !.pc = "commit", !.plant = f.plant]
                         ELSE Respond(@, f.response)]
        /\ UNCHANGED store

\* PlantByID.patch: the try block up to db.session.commit()
PatchCommit ==
    \E c \in Clients :
        /\ At(c, "PATCH /plants/id", "commit")
        /\ \E build \in Builds :
           LET u == Update(store, slot[c].plant, slot[c].body, slot[c].commitOk,
                           build)
           IN /\ store' = u.store
              /\ slot' = [slot EXCEPT ![c] =
                            IF u.ok
                            THEN [@ EXCEPT !.pc = "reload", !.plant = u.plant,
                                           !.wrote = (u.store # store)]
                            ELSE Respond(@, BadRequest(u.msg))]

\* PlantByID.patch: jsonify(plant.to_dict())
PatchReload ==
    \E c \in Clients :
        /\ At(c, "PATCH /plants/id", "reload")
        /\ \E expire \in BOOLEAN :
              slot' = [slot EXCEPT ![c] =
                         Respond(@, Serialize(store, @.plant, 200, expire))]
        /\ UNCHANGED store

\* PlantByID.delete: the lookup
DeleteLookup ==
    \E c \in Clients :
        /\ At(c, "DELETE /plants/id", "begin")
        /\ LET f == Find(store, slot[c].id, slot[c].body)
           IN slot' = [slot EXCEPT ![c] =
                         IF f.found
                         THEN [@ EXCEPT !.pc = "commit", !.plant = f.plant]
                         ELSE Respond(@, f.response)]
        /\ UNCHANGED store

\* PlantByID.delete: db.session.delete(plant); db.session.commit(), outside
\* any try
DeleteCommit ==
    \E c \in Clients :
        /\ At(c, "DELETE /plants/id", "commit")
        /\ IF slot[c].commitOk
           THEN /\ store' = Delete(store, slot[c].plant.id)
                /\ slot' = [slot EXCEPT ![c] =
                              Respond([@ EXCEPT !.wrote = (store' # store)],
                                      NoContent)]
           ELSE /\ store' = store
                /\ slot' = [slot EXCEPT ![c] = Respond(@, ServerError)]

Steps ==
    \/ GetPlants
    \/ PostCommit
    \/ PostReload
    \/ GetPlant
    \/ PatchLookup
    \/ PatchCommit
    \/ PatchReload
    \/ DeleteLookup
    \/ DeleteCommit

Next == Issue(FALSE, FALSE) \/ Receive \/ Steps

\* Two clients, storage never failing.
Spec == Init /\ [][Next]_vars

NextFault == Issue(FALSE, TRUE) \/ Receive \/ Steps

\* The same, a db.session.commit() being allowed to raise.
SpecFault == Init /\ [][NextFault]_vars

NextAttrs == Issue(TRUE, FALSE) \/ Receive \/ Steps

\* The same as Spec, client a sending PATCHes whose keys are attributes of
\* the instance that are no columns.
SpecAttrs == Init /\ [][NextAttrs]_vars

\* --------------------------- one PATCH and one DELETE of the same record

\* The rows the requests above can leave in the table.
Rows ==
    {Row("Aloe", ImageOf("Aloe"), PriceOf("Aloe"), b) : b \in BOOLEAN}
    \cup {Row("Fern", ImageOf("Fern"), PriceOf("Fern"), FALSE)}

\* The tables the service can hold.
Stores == UNION {[S -> Rows] : S \in SUBSET Ids}

\* A PATCH without id key and a DELETE of one stored record have arrived.
RaceInit ==
    /\ store \in Stores
    /\ \E id \in DOMAIN store, body \in PatchBodiesNoId :
           slot = [c \in Clients |->
                     IF c = "a"
                     THEN Arrived(Request("PATCH /plants/id", id, body), TRUE)
                     ELSE Arrived(Request("DELETE /plants/id", id, NoBody), TRUE)]

RaceNext ==
    \/ PatchLookup
    \/ PatchCommit
    \/ PatchReload
    \/ DeleteLookup
    \/ DeleteCommit

SpecRace == RaceInit /\ [][RaceNext]_vars

\* ------------------------------------------------------------ properties

ByIdOps == {"GET /plants/id", "PATCH /plants/id", "DELETE /plants/id"}

\* A creation payload with name, image and price.
ValidCreation(body) ==
    /\ body.json
    /\ HasKeyIn(body.items, "name")
    /\ HasKeyIn(body.items, "image")
    /\ HasKeyIn(body.items, "price")

\* The row a creation payload asks for.
Submitted(body) ==
    Row(ValueIn(body.items, "name"), ValueIn(body.items, "image"),
        ValueIn(body.items, "price"),
        IF HasKeyIn(body.items, "is_in_stock")
        THEN ValueIn(body.items, "is_in_stock") ELSE TRUE)

\* Client c's request gets its response in this step.
Completes(c) == slot[c].pc # "done" /\ slot'[c].pc = "done"

\* Client c's request leaves stage pc in this step.
Leaves(c, pc) == slot[c].pc = pc /\ slot'[c].pc # pc

\* The row of c's instance is stored as the session of c last saw it.
Undisturbed(c) ==
    /\ slot[c].plant.id \in DOMAIN store
    /\ store[slot[c].plant.id] = RowOf(slot[c].plant)

C2_ListLength ==
    [][\A c \in Clients :
        (slot[c].op = "GET /plants" /\ Completes(c)) =>
           /\ slot'[c].response.status = 200
           /\ slot'[c].response.kind = "list"
           /\ Len(slot'[c].response.plants) = Cardinality(DOMAIN store')
           /\ (DOMAIN store' = {} => slot'[c].response.plants = <<>>)]_vars

\* A listing of the one record left after the record of id 1 was removed.
C2_Witness ==
    \E c \in Clients :
        /\ slot[c].op = "GET /plants"
        /\ slot[c].pc = "done"
        /\ Len(slot[c].response.plants) = 1
        /\ DOMAIN store = {2}

\* C3: after a DELETE /plants/<id> that returned 204 no record is stored
\* under the id and GET /plants/<id> answers 404 {"error": "Plant not
\* found"}; and whenever no record is stored under an id, GET /plants/<id>
\* answers that 404.
C3_DeleteThenGet ==
    [][\A c \in Clients :
        /\ (/\ slot[c].op = "DELETE /plants/id"
            /\ Completes(c)
            /\ slot'[c].response.status = 204) =>
               /\ slot[c].id \notin DOMAIN store'
               /\ PlantByID_get(store', slot[c].id) = NotFound
        /\ (/\ slot[c].op = "GET /plants/id"
            /\ Completes(c)
            /\ slot[c].id \notin DOMAIN store) =>
               slot'[c].response = NotFound]_vars

C3_Witness ==
    \E c \in Clients :
        /\ slot[c].op = "DELETE /plants/id"
        /\ slot[c].pc = "done"
        /\ slot[c].response.status = 204
        /\ slot[c].wrote
        /\ PlantByID_get(store, slot[c].id).status = 404
        /\ DOMAIN store # {}

\* The record c's PATCH looked up, out of stock.
Restocked(c) == [RowOf(slot[c].plant) EXCEPT !.is_in_stock = FALSE]

C5_AbsentIs404 ==
    [][\A c \in Clients :
        (/\ slot[c].op \in ByIdOps
         /\ Leaves(c, "begin")
         /\ slot[c].id \notin DOMAIN store) =>
           /\ slot'[c].pc = "done"
           /\ slot'[c].response = NotFound
           /\ store' = store]_vars

C5_Witness ==
    \E c \in Clients :
        /\ slot[c].op = "PATCH /plants/id"
        /\ ~slot[c].body.json
        /\ slot[c].pc = "done"
        /\ slot[c].response.status = 404
        /\ DOMAIN store # {}

\* C6: POST /plants with a body that has no name answers 400 with a
\* non-empty errors array and writes nothing.
C6_PostMissingName ==
    [][\A c \in Clients :
        (/\ slot[c].op = "POST /plants"
         /\ slot[c].body.json
         /\ ~HasKeyIn(slot[c].body.items, "name")
         /\ Leaves(c, "begin")) =>
           /\ slot'[c].pc = "done"
           /\ slot'[c].response.status = 400
           /\ slot'[c].response.kind = "errors"
           /\ Len(slot'[c].response.errors) >= 1
           /\ store' = store]_vars

C6_Witness ==
    \E c \in Clients :
        /\ slot[c].op = "POST /plants"
        /\ slot[c].body.json
        /\ ~HasKeyIn(slot[c].body.items, "name")
        /\ HasKeyIn(slot[c].body.items, "is_in_stock")
        /\ slot[c].pc = "done"
        /\ slot[c].response.status = 400
        /\ DOMAIN store # {}

\* C7: no request changes the id of a record between its creation and its
\* deletion: a record stored under an id stays under that id unless a DELETE
\* of that id commits and returns 204.
C7_IdImmutable ==
    [][\A i \in DOMAIN store :
          \/ i \in DOMAIN store'
          \/ \E c \in Clients :
                /\ slot[c].op = "DELETE /plants/id"
                /\ slot[c].id = i
                /\ Completes(c)
                /\ slot'[c].response.status = 204]_vars

\* C8: every request ends in one of the documented responses; a failure is
\* answered 404 {"error": "Plant not found"} or 400 {"errors": [msg]}, never
\* left uncaught (500).
C8_NoUncaught ==
    \A c \in Clients :
        /\ slot[c].response.status \in {0, 200, 201, 204, 400, 404}
        /\ (slot[c].response.status = 404 => slot[c].response = NotFound)
        /\ (slot[c].response.status = 400 =>
                slot[c].response.kind = "errors" /\ Len(slot[c].response.errors) = 1)

\* C9: a PATCH /plants/<id> of an existing record that ends in 400 has
\* written nothing.
C9_Patch400PersistsNothing ==
    [][\A c \in Clients :
        (/\ slot[c].op = "PATCH /plants/id"
         /\ slot[c].pc \in {"commit", "reload"}
         /\ Completes(c)
         /\ slot'[c].response.status = 400) =>
           /\ store' = store
           /\ ~slot[c].wrote]_vars

\* C10: in every interleaving of a PATCH (no id key) and a DELETE of the same
\* existing record, the DELETE returns 204, the PATCH returns 200, 404 or 400,
\* and from the DELETE's commit on no record is stored under that id.
C10_PatchDeleteRace ==
    /\ (slot["b"].pc = "done" =>
            /\ slot["b"].response = NoContent
            /\ slot["b"].id \notin DOMAIN store)
    /\ (slot["a"].pc = "done" => slot["a"].response.status \in {200, 404, 400})
    /\ \A c \in Clients : slot[c].response.status # 500

\* The PATCH looked the record up before the DELETE committed and committed
\* its change after it.
C10_Witness ==
    /\ slot["a"].pc = "done"
    /\ slot["b"].pc = "done"
    /\ slot["a"].response.status = 400
    /\ slot["a"].response.errors = <<"StaleDataError">>
    /\ slot["a"].id \notin DOMAIN store
    /\ DOMAIN store # {}

====
